---- MODULE Spec2Model ----
(***************************************************************************)
(* A model of the instruction-triggered tool-execution engine:             *)
(*   - the agent loops (ProactiveAgent.processNewEmail /                   *)
(*     processNewCalendarEvent / processNewContact,                        *)
(*     InstructionExecutor.executeInstruction, the chat handler),          *)
(*   - ToolService.executeTool and the capability adapters behind it,      *)
(*   - NotificationService,                                                *)
(*   - the email detectors (BackgroundPoller, the poll-emails endpoint).   *)
(* The reasoning oracle, the adapters' remote services and the mailbox are *)
(* the environment: their answers are chosen nondeterministically.         *)
(***************************************************************************)
EXTENDS Integers, Sequences, FiniteSets, TLC

(***************************************************************************)
(* Bounds of the model.                                                    *)
(***************************************************************************)
\* Tool calls the oracle may put into one response.
MaxCalls == 2
\* Per agent run: how many times the environment may depart from the plain
\* course (a response holding one successful search): every further call of
\* a response, every other kind of call and every adapter failure costs one.
MaxSpecial == 2
\* The same for the executor's loop, which is twice as long.
MaxSpecialLong == 1

(***************************************************************************)
(* Program constants.                                                      *)
(***************************************************************************)
EmailRounds == 5
ExecutorRounds == 10
ChatRounds == 5

Null == "null"

(***************************************************************************)
(* Strings.  Email addresses are kept with their letter case, so that      *)
(* String.toLowerCase and === are modelled by what they do.                *)
(***************************************************************************)
Addresses == {"me@x.com", "Me@X.com", "bob@x.com", "Bob@X.com", "carol@x.com"}

ToLowerCase(s) ==
    CASE s = "Me@X.com" -> "me@x.com"
      [] s = "Bob@X.com" -> "bob@x.com"
      [] OTHER -> s

\* A From header: either the bare address or "Name <address>".
FromHeaders == [display : BOOLEAN, addr : Addresses]

\* const extractEmail = (from) => { match = from.match(/<([^>]+)>/); ... }
extractEmail(from) == from.addr

(***************************************************************************)
(* Users and standing instructions.                                        *)
(***************************************************************************)
Users == {"u1", "u2", "u3"}
UserIds == Users \cup {"ghost"}

(***************************************************************************)
(* The tool catalogue (the part of it the model exercises) and the shapes  *)
(* of the arguments the oracle may supply.                                 *)
(***************************************************************************)
ReadOnlyTools == {"search_contacts"}
MutatingTools == {"send_email", "create_contact", "add_contact_note"}
CatalogTools == ReadOnlyTools \cup MutatingTools
ToolNames == CatalogTools \cup {"no_such_tool"}

\* Shapes of an arguments string:
\*   ok          parses, and satisfies the declared schema
\*   missing     parses, a required field is absent
\*   internal_id parses, contactId holds the storage id, not the CRM id
\*   badjson     does not parse
\* The calls the oracle may propose: a tool name, the shape of the arguments
\* and, for create_contact, the email among them.
CallMenu ==
    {[tool |-> "search_contacts", shape |-> s, email |-> "-"] : s \in {"ok", "badjson"}}
    \cup {[tool |-> "send_email", shape |-> s, email |-> "-"] : s \in {"ok", "missing"}}
    \cup {[tool |-> "create_contact", shape |-> "ok", email |-> e] :
             e \in {"me@x.com", "Me@X.com", "bob@x.com"}}
    \cup {[tool |-> "add_contact_note", shape |-> s, email |-> "-"] :
             s \in {"ok", "internal_id"}}
    \cup {[tool |-> "no_such_tool", shape |-> "ok", email |-> "-"]}

\* The tool's declared parameters (type, properties, required), applied to
\* a call.
SchemaValid(c) == c.tool \in CatalogTools /\ c.shape = "ok"

PlainCall == [tool |-> "search_contacts", shape |-> "ok", email |-> "-"]

(***************************************************************************)
(* State.                                                                  *)
(***************************************************************************)
VARIABLES
    users,          \* User + Account tables: id -> [email, google]
    instructions,   \* OngoingInstruction table: id -> [userId, triggerType, isActive]
    run,            \* the locals of the agent run in progress, and what it has done
    effects,        \* every invocation of a capability adapter, in order
    crm,            \* contacts held by the CRM (HubSpot)
    contactTable,   \* Contact table
    notifications,  \* Notification table, in order of creation
    reply,          \* what the caller shows the user when the run is over
    fuel,           \* departures from the plain course still allowed (see MaxSpecial)
    mailbox,        \* ids of the messages Gmail holds
    emailTable,     \* Email table, in order of creation
    poll,           \* the locals of the detector pass in progress, and what it has done
    tasks,          \* Task table, in order of creation
    sweep,          \* the locals of the process-tasks requests in progress
    sync            \* CalendarEvent table and the locals of the calendar syncs in progress

detectorVars == <<mailbox, emailTable, poll>>

storeVars == <<tasks, sweep, sync>>

vars == <<users, instructions, run, effects, crm, contactTable,
          notifications, reply, fuel, mailbox, emailTable, poll, tasks, sweep, sync>>

RunKinds == {"email", "calendar", "contact", "executor", "chat"}

InstrIds == {"i1", "i2", "i3", "i4"}

NoCompletion == [hasCalls |-> FALSE, calls |-> <<>>, content |-> FALSE]

IdleRun ==
    [kind |-> Null, user |-> Null, event |-> Null, pc |-> "idle", why |-> Null,
     round |-> 0, completion |-> NoCompletion, idx |-> 0, toolResults |-> <<>>,
     history |-> <<>>,
     instructions |-> <<>>, \* the rows the matcher found, as it returned them
     oracleCalls |-> 0,     \* oracle calls issued so far
     rounds |-> 0,          \* tool-execution rounds begun so far
     executed |-> 0]        \* tool calls executed so far

\* A loop that runs one round too many.
RoundBudgetInclusive(kind) ==
    CASE kind = "email" -> EmailRounds + 1
      [] kind = "executor" -> ExecutorRounds + 1
      [] kind = "chat" -> ChatRounds + 1
      [] OTHER -> 1

\* for (let round = 0; round < N; round++)
RoundBudget(kind) ==
    CASE kind = "email" -> EmailRounds
      [] kind = "executor" -> ExecutorRounds
      [] kind = "chat" -> ChatRounds
      [] OTHER -> 1

\* The loops that feed tool results back to the oracle.
KeepsHistory(kind) == kind \in {"email", "executor", "chat"}

TriggerOf(kind) ==
    CASE kind = "email" -> "NEW_EMAIL"
      [] kind = "calendar" -> "NEW_CALENDAR_EVENT"
      [] kind = "contact" -> "NEW_CONTACT"
      [] OTHER -> Null

\* A query that leaves isActive out.
FindInstructionsOfAnyState(u, trigger) ==
    {i \in InstrIds : /\ instructions[i].userId = u
                      /\ instructions[i].triggerType = trigger}

\* prisma.ongoingInstruction.findMany({ where: { userId, isActive: true, triggerType } })
FindInstructions(u, trigger) ==
    {i \in InstrIds : /\ instructions[i].userId = u
                      /\ instructions[i].isActive
                      /\ instructions[i].triggerType = trigger}

\* The same query as the store may answer it: it has no orderBy, so the
\* rows come in whatever order the database yields them.
FindMany(u, trigger) ==
    LET found == FindInstructions(u, trigger)
        n == Cardinality(found)
    IN  {f \in [1..n -> found] : \A a, b \in 1..n : f[a] = f[b] => a = b}

(***************************************************************************)
(* The entry of an agent run: the code between the function's head and its *)
(* first oracle call.  Yields the reason for an early return, or "go".     *)
(***************************************************************************)
EntryCheck(kind, u, ev) ==
    IF kind = "chat" THEN "go"
    ELSE IF u \notin Users THEN "nouser"
    ELSE IF /\ kind = "email"
            /\ ToLowerCase(extractEmail(ev.from)) = ToLowerCase(users[u].email)
         THEN "self"
    ELSE IF ~users[u].google THEN "notoken"
    ELSE IF kind # "executor" /\ FindInstructions(u, TriggerOf(kind)) = {} THEN "noinstr"
    ELSE "go"

SystemMsg == [role |-> "system", round |-> 0, id |-> Null, name |-> Null, err |-> FALSE]
UserMsg == [role |-> "user", round |-> 0, id |-> Null, name |-> Null, err |-> FALSE]
AssistantMsg(r) == [role |-> "assistant", round |-> r, id |-> Null, name |-> Null, err |-> FALSE]
\* A tool-result message that does not say that the call failed.
ToolMsgWithoutError(r, id, name, err) ==
    [role |-> "tool", round |-> r, id |-> id, name |-> name, err |-> FALSE]

ToolMsg(r, id, name, err) == [role |-> "tool", round |-> r, id |-> id, name |-> name, err |-> err]

\* `found` is the answer to the query for the instructions; the prompt
\* lists them as they came (instructions.map(i => `- ${i.instruction}`)).
StartRun(kind, u, ev, found) ==
    LET verdict == EntryCheck(kind, u, ev) IN
    [IdleRun EXCEPT !.kind = kind, !.user = u, !.event = ev,
                    !.instructions = IF verdict = "go" THEN found ELSE <<>>,
                    !.pc = IF verdict = "go" THEN "oracle0" ELSE "skipped",
                    !.why = IF verdict = "go" THEN Null ELSE verdict,
                    !.oracleCalls = IF verdict = "go" THEN 1 ELSE 0,
                    !.history = IF verdict = "go" /\ KeepsHistory(kind)
                                THEN <<SystemMsg, UserMsg>> ELSE <<>>]

(***************************************************************************)
(* ToolService.executeTool.  `outcome` is the answer of the remote service *)
(* behind the adapter, should the call get that far.  Yields whether the   *)
(* call threw, whether it was refused, and the adapter it reached (Null    *)
(* if none).                                                               *)
(***************************************************************************)
AdapterOutcomes == {"ok", "err"}

AdapterOf(tool) ==
    CASE tool = "search_contacts" -> "rag"
      [] tool = "send_email" -> "gmail"
      [] tool = "create_contact" -> "hubspot"
      [] tool = "add_contact_note" -> "hubspot"
      [] OTHER -> Null

\* case 'create_contact': if (user && toolCall.arguments.email === user.email)
SelfContactGuard(u, c) == u \in Users /\ c.email = users[u].email

executeTool(u, c, outcome) ==
    IF c.tool \notin CatalogTools
    THEN [threw |-> TRUE, refused |-> FALSE, adapter |-> Null]     \* Unknown tool
    ELSE IF c.tool = "create_contact" /\ SelfContactGuard(u, c)
    THEN [threw |-> FALSE, refused |-> TRUE, adapter |-> Null]
    ELSE [threw |-> outcome # "ok", refused |-> FALSE, adapter |-> AdapterOf(c.tool)]

\* The remote service's answer: it has none to give when it is not reached,
\* and it rejects arguments that are not what it expects.
AnswerTo(adapter, shape, outcome) ==
    IF adapter = Null THEN "ok"
    ELSE IF shape # "ok" THEN "err"
    ELSE outcome

(***************************************************************************)
(* Notifications.                                                          *)
(***************************************************************************)
\* NotificationService.create: prisma.notification.create
NotificationCreate(table, u, type, severity, tool) ==
    Append(table, [userId |-> u, type |-> type, severity |-> severity, tool |-> tool])

\* ProactiveAgent.createNotificationForAction
EmailActionNotification(table, u, c) ==
    CASE c.tool = "create_contact" ->
            NotificationCreate(table, u, "NEW_CONTACT_CREATED", "SUCCESS", c.tool)
      [] c.tool = "add_contact_note" ->
            NotificationCreate(table, u, "PROACTIVE_ACTION", "INFO", c.tool)
      [] OTHER -> table

\* InstructionExecutor.createNotificationForAction
ExecutorActionNotification(table, u, c) ==
    CASE c.tool = "create_contact" ->
            NotificationCreate(table, u, "NEW_CONTACT_CREATED", "SUCCESS", c.tool)
      [] c.tool = "send_email" ->
            NotificationCreate(table, u, "PROACTIVE_ACTION", "SUCCESS", c.tool)
      [] c.tool = "add_contact_note" ->
            NotificationCreate(table, u, "PROACTIVE_ACTION", "INFO", c.tool)
      [] OTHER -> table

\* createErrorNotification (both loops): the generic branch
ErrorNotification(table, u, c) ==
    NotificationCreate(table, u, "ERROR", "ERROR", c.tool)

\* What one tool call leaves in the Notification table, by kind of run.
NotifyAfterCall(table, kind, u, c, threw) ==
    CASE kind = "email" ->
            IF threw THEN ErrorNotification(table, u, c)
            ELSE EmailActionNotification(table, u, c)
      [] kind = "executor" ->
            IF threw THEN ErrorNotification(table, u, c)
            ELSE ExecutorActionNotification(table, u, c)
      [] OTHER -> table

(***************************************************************************)
(* The reasoning oracle.                                                   *)
(***************************************************************************)
SeqCost(cs) == (Len(cs) - 1) + Cardinality({i \in 1..Len(cs) : cs[i] # PlainCall})

\* tool_calls of the response to oracle call number r: each call gets an id.
WithIds(r, cs) ==
    [i \in 1..Len(cs) |->
        [id |-> <<r, i>>, tool |-> cs[i].tool, shape |-> cs[i].shape, email |-> cs[i].email]]

\* What the oracle may ask for in one response, and the same by what it
\* costs (tabulated once: {x : x \in S} and @@ yield explicit values).
Proposals == {cs : cs \in UNION {[1..n -> CallMenu] : n \in 1..MaxCalls}}
ProposalsWithin ==
    [f \in 0..(MaxSpecial + MaxSpecialLong) |-> {cs \in Proposals : SeqCost(cs) <= f}] @@ <<>>

MenuCall(c) == [tool |-> c.tool, shape |-> c.shape, email |-> c.email]

AwaitingOracle == run.pc \in {"oracle0", "oracleN"}

\* The value of `round` when the loop head is next evaluated.
NextRound == IF run.pc = "oracleN" THEN run.round + 1 ELSE 0

(***************************************************************************)
(* The agent loop.                                                         *)
(***************************************************************************)
\* The function returns: its locals are gone, what it did stays.
Return(r, pc, why) ==
    [r EXCEPT !.pc = pc, !.why = why, !.completion = NoCompletion, !.idx = 0,
              !.toolResults = <<>>, !.history = <<>>, !.instructions = <<>>]

\* A caller invokes processNewEmail / processNewCalendarEvent /
\* processNewContact / executeInstruction / the chat handler.
Invoke(kind, u, ev) ==
    /\ run.pc = "idle"
    /\ \E found \in FindMany(u, TriggerOf(kind)) : run' = StartRun(kind, u, ev, found)
    /\ fuel' = IF kind = "executor" THEN MaxSpecialLong ELSE MaxSpecial
    /\ UNCHANGED <<users, instructions, effects, crm, contactTable,
                   notifications, reply, detectorVars>>
    /\ UNCHANGED storeVars

\* In a run that a detector has started, a round is itself a departure from
\* the plain course (there, the plain run asks for no tool).
RoundCost == IF poll.pc = "await" THEN 1 ELSE 0

\* The oracle answers with tool calls and the loop has rounds left: the
\* assistant message goes into the history and the first call is next.
OracleProposes(cs) ==
    /\ AwaitingOracle
    /\ NextRound < RoundBudget(run.kind)
    /\ SeqCost(cs) + RoundCost <= fuel
    /\ run' = [run EXCEPT !.round = NextRound,
                          !.completion = [hasCalls |-> TRUE, calls |-> WithIds(NextRound, cs),
                                          content |-> FALSE],
                          !.pc = "exec", !.idx = 1, !.toolResults = <<>>,
                          !.rounds = @ + 1,
                          !.history = IF KeepsHistory(run.kind)
                                      THEN Append(@, AssistantMsg(NextRound)) ELSE @]
    /\ fuel' = fuel - (SeqCost(cs) + RoundCost)
    /\ UNCHANGED <<users, instructions, effects, crm, contactTable,
                   notifications, reply, detectorVars>>
    /\ UNCHANGED storeVars

\* The chat handler's assistantMessage at the end of the loop.
ChatReply(exhausted, content) ==
    IF content THEN "content"
    ELSE IF exhausted THEN "processing" ELSE "sorry"

\* The loop ends: the oracle asked for no tool (break), or the loop
\* condition fails, whatever the last response asked for.
OracleStops(hasCalls, content) ==
    /\ AwaitingOracle
    /\ KeepsHistory(run.kind)
    /\ hasCalls => NextRound >= RoundBudget(run.kind)
    /\ content => run.kind = "chat"
    /\ run' = Return([run EXCEPT !.round = NextRound], "done", Null)
    /\ reply' = IF run.kind = "chat"
                THEN ChatReply(NextRound >= RoundBudget(run.kind), content)
                ELSE reply
    /\ UNCHANGED <<users, instructions, effects, crm, contactTable,
                   notifications, fuel, detectorVars>>
    /\ UNCHANGED storeVars

\* processNewCalendarEvent / processNewContact: one oracle call, no tool asked.
OracleDeclines ==
    /\ run.pc = "oracle0"
    /\ ~KeepsHistory(run.kind)
    /\ run' = Return(run, "done", Null)
    /\ UNCHANGED <<users, instructions, effects, crm, contactTable,
                   notifications, reply, fuel, detectorVars>>
    /\ UNCHANGED storeVars

\* An outer catch that undoes what the run has done.
OracleFailsRollingBack(class) ==
    /\ AwaitingOracle
    /\ class = "quota" => run.kind = "chat"
    /\ run' = Return(run, "errored", class)
    /\ reply' = IF run.kind = "chat"
                THEN (IF class = "quota" THEN "quota_exceeded" ELSE "error_message")
                ELSE reply
    /\ effects' = <<>>
    /\ crm' = {}
    /\ contactTable' = {}
    /\ UNCHANGED <<users, instructions, notifications, fuel, detectorVars>>
    /\ UNCHANGED storeVars

\* openai.chat.completions.create throws: the outer catch.
OracleFails(class) ==
    /\ AwaitingOracle
    /\ class = "quota" => run.kind = "chat"
    /\ run' = Return(run, "errored", class)
    /\ reply' = IF run.kind = "chat"
                THEN (IF class = "quota" THEN "quota_exceeded" ELSE "error_message")
                ELSE reply
    /\ UNCHANGED <<users, instructions, effects, crm, contactTable,
                   notifications, fuel, detectorVars>>
    /\ UNCHANGED storeVars

\* A loop whose round ends with the first call that fails.
AdvanceAborting(r, c, threw) ==
    LET results == IF KeepsHistory(r.kind)
                   THEN Append(r.toolResults, ToolMsg(r.round, c.id, c.tool, threw))
                   ELSE r.toolResults
    IN  IF r.idx < Len(r.completion.calls) /\ ~threw
        THEN [r EXCEPT !.toolResults = results, !.idx = @ + 1, !.executed = @ + 1]
        ELSE IF KeepsHistory(r.kind)
        THEN [r EXCEPT !.toolResults = <<>>, !.history = @ \o results,
                       !.executed = @ + 1, !.oracleCalls = @ + 1, !.pc = "oracleN"]
        ELSE Return([r EXCEPT !.executed = @ + 1], "done", Null)

\* A loop that asks the oracle again after every call.
AdvanceWithoutWaiting(r, c, threw) ==
    LET results == IF KeepsHistory(r.kind)
                   THEN Append(r.toolResults, ToolMsg(r.round, c.id, c.tool, threw))
                   ELSE r.toolResults
    IN  IF KeepsHistory(r.kind)
        THEN [r EXCEPT !.toolResults = <<>>, !.history = @ \o results,
                       !.executed = @ + 1, !.oracleCalls = @ + 1, !.pc = "oracleN"]
        ELSE Return([r EXCEPT !.executed = @ + 1], "done", Null)

\* The locals after one pass of `for (const toolCall of toolCalls)`: the
\* call's result or, from the catch, its error joins toolResults under the
\* call's id; after the last call of the round the results join the history
\* and the next oracle call is issued.
Advance(r, c, threw) ==
    LET results == IF KeepsHistory(r.kind)
                   THEN Append(r.toolResults, ToolMsg(r.round, c.id, c.tool, threw))
                   ELSE r.toolResults
    IN  IF r.idx < Len(r.completion.calls)
        THEN [r EXCEPT !.toolResults = results, !.idx = @ + 1, !.executed = @ + 1]
        ELSE IF KeepsHistory(r.kind)
        THEN [r EXCEPT !.toolResults = <<>>, !.history = @ \o results,
                       !.executed = @ + 1, !.oracleCalls = @ + 1, !.pc = "oracleN"]
        ELSE Return([r EXCEPT !.executed = @ + 1], "done", Null)

\* A notification that could not be written, thrown into the loop's catch.
AfterNotificationThrown(threw, stored) == threw \/ ~stored

\* What the loop's try block sees once the notification step is over:
\* NotificationService.create catches what prisma throws and returns null,
\* and createNotificationForAction / createErrorNotification catch again.
AfterNotification(threw, stored) == threw

\* One pass of `for (const toolCall of toolCalls)`: JSON.parse, executeTool,
\* the notification (`stored`: whether prisma wrote it), the tool-result
\* message; after the last call of the round the results join the history
\* and the next oracle call is issued.
ExecuteCall(outcome) ==
    /\ run.pc = "exec"
    /\ \E stored \in BOOLEAN :
       LET c == run.completion.calls[run.idx]
           u == run.user
           parsed == c.shape # "badjson"
           res == IF parsed THEN executeTool(u, MenuCall(c), outcome)
                  ELSE [threw |-> TRUE, refused |-> FALSE, adapter |-> Null]
           due == NotifyAfterCall(notifications, run.kind, u, MenuCall(c), res.threw)
           cost == (IF res.adapter # Null /\ c.shape = "ok" /\ outcome # "ok" THEN 1 ELSE 0)
                   + (IF stored THEN 0 ELSE 1)
       IN  /\ outcome = AnswerTo(res.adapter, c.shape, outcome)
           /\ ~stored => due # notifications
           /\ cost <= fuel
           /\ fuel' = fuel - cost
           /\ effects' = IF res.adapter = Null THEN effects
                         ELSE Append(effects, [adapter |-> res.adapter, user |-> u,
                                               tool |-> c.tool, shape |-> c.shape,
                                               email |-> c.email, threw |-> res.threw])
           /\ crm' = IF c.tool = "create_contact" /\ res.adapter # Null /\ ~res.threw
                     THEN crm \cup {c.email} ELSE crm
           /\ contactTable' = IF c.tool = "create_contact" /\ res.adapter # Null /\ ~res.threw
                              THEN contactTable \cup {[userId |-> u, email |-> c.email]}
                              ELSE contactTable
           /\ notifications' = IF stored THEN due ELSE notifications
           /\ run' = Advance(run, c, AfterNotification(res.threw, stored))
    /\ UNCHANGED <<users, instructions, reply, detectorVars>>
    /\ UNCHANGED storeVars

(***************************************************************************)
(* The rows the tables start with.                                         *)
(***************************************************************************)
\* u1 and u2 are connected to Google, u3 is not.
UserRows ==
    [u \in Users |->
        CASE u = "u1" -> [email |-> "me@x.com", google |-> TRUE]
          [] u = "u2" -> [email |-> "bob@x.com", google |-> TRUE]
          [] OTHER -> [email |-> "carol@x.com", google |-> FALSE]]

Instr(u, t, a) == [userId |-> u, triggerType |-> t, isActive |-> a]

InstructionRows ==
    [i \in InstrIds |->
        CASE i = "i1" -> Instr("u1", "NEW_EMAIL", TRUE)
          [] i = "i2" -> Instr("u1", "NEW_CONTACT", TRUE)
          [] i = "i3" -> Instr("u2", "NEW_CALENDAR_EVENT", TRUE)
          [] OTHER -> Instr("u2", "NEW_EMAIL", FALSE)]

\* What is left of a row that has been deleted: no query finds it.
Gone == [isActive |-> FALSE, triggerType |-> Null, userId |-> Null]

\* The createdAt of the rows: they were created in the order of their ids.
CreatedAt(i) ==
    CASE i = "i1" -> 1
      [] i = "i2" -> 2
      [] i = "i3" -> 3
      [] OTHER -> 4

\* The instructions of trigger type NEW_EMAIL.
EmailInstrIds == {"i1", "i4"}

FromSelf == [display |-> FALSE, addr |-> "me@x.com"]
FromSelfNamed == [display |-> TRUE, addr |-> "Me@X.com"]
FromBob == [display |-> TRUE, addr |-> "bob@x.com"]
FromCarol == [display |-> FALSE, addr |-> "carol@x.com"]

(***************************************************************************)
(* The email detectors: BackgroundPoller.pollAllUsers / pollUserEmails and *)
(* the poll-emails endpoint.  Message ids differ from mailbox to mailbox.  *)
(* A pass of the poller and a pass of the endpoint are taken one after the *)
(* other.  pollUserCalendarEvents, which the poller runs for a user after  *)
(* pollUserEmails, works on the CalendarEvent table alone and never calls  *)
(* processNewEmail: of it the state holds that it ran and whether it       *)
(* caught an error.                                                        *)
(***************************************************************************)
\* Detector passes in one behaviour.
MaxPasses == 2
\* Departures from the plain course, over all the agent runs of the passes.
PollSpecial == 2
\* PUT requests on the instructions route in one behaviour.
MaxUpdates == 1
\* pollAllUsers calls that find a cycle running, in one behaviour.
MaxSkips == 1
\* Times the process stops in the middle of a pass, in one behaviour.
MaxCrashes == 1
\* Departures from the plain course in a behaviour of the whole process:
\* rounds of agent runs, and errors of the store and of the calendar sync.
CycleSpecial == 1

\* new Date(Date.now() - 24 * 60 * 60 * 1000): every message is younger.
DayAgo == 0

MessageIds == {"m1", "m2", "m3"}

\* What users.messages.get returns for an id: the From and Date headers.
Message(id) ==
    CASE id = "m1" -> [id |-> id, owner |-> "u1", from |-> FromBob, date |-> 1]
      [] id = "m2" -> [id |-> id, owner |-> "u1", from |-> FromSelfNamed, date |-> 2]
      [] OTHER -> [id |-> id, owner |-> "u2", from |-> FromCarol, date |-> 1]

\* A lookup that never finds the user's row.
EmailExistsElsewhere(table, u, id) ==
    \E k \in 1..Len(table) : table[k].userId # u /\ table[k].gmailId = id

\* prisma.email.findFirst({ where: { userId, gmailId } })
EmailExists(table, u, id) ==
    \E k \in 1..Len(table) : table[k].userId = u /\ table[k].gmailId = id

\* CREATE UNIQUE INDEX "Email_gmailId_key" ON "Email"("gmailId")
GmailIdTaken(table, id) == \E k \in 1..Len(table) : table[k].gmailId = id

\* prisma.email.create({ data: { userId, gmailId: email.id, ..., date: email.date } })
EmailCreate(table, u, m) ==
    Append(table, [userId |-> u, gmailId |-> m.id, date |-> m.date])

\* lastEmail?.date || new Date(Date.now() - 24h)
SinceDate(table, u) ==
    LET dates == {table[k].date : k \in {j \in 1..Len(table) : table[j].userId = u}}
    IN  IF dates = {} THEN DayAgo
        ELSE CHOOSE d \in dates : \A e \in dates : e <= d

\* users.messages.list({ q: `after:${timestamp}` }) on the user's mailbox: the
\* query is by the second, so a message of the watermark's second qualifies.
AfterQuery(box, u, since) ==
    {id \in box : Message(id).owner = u /\ Message(id).date >= since}

\* The order of users.messages.list: newest first.
RECURSIVE NewestFirst(_)
NewestFirst(ids) ==
    IF ids = {} THEN <<>>
    ELSE LET m == CHOOSE x \in ids : \A y \in ids : Message(y).date <= Message(x).date
         IN  <<m>> \o NewestFirst(ids \ {m})

Detectors == {"poller", "manual"}

UserOrder == <<"u1", "u2", "u3">>

\* The users a pass works on, with what the query included of them.
\*   poller: where ongoingInstructions some isActive, include the active ones
\*   manual: where ongoingInstructions some (isActive, NEW_EMAIL)
Selected(detector, u) ==
    IF detector = "poller"
    THEN \E i \in InstrIds : instructions[i].userId = u /\ instructions[i].isActive
    ELSE FindInstructions(u, "NEW_EMAIL") # {}

Snapshot(u) ==
    [user |-> u, emailInstr |-> FindInstructions(u, "NEW_EMAIL") # {},
     google |-> users[u].google]

RECURSIVE Selection(_, _)
Selection(detector, k) ==
    IF k > Len(UserOrder) THEN <<>>
    ELSE (IF Selected(detector, UserOrder[k]) THEN <<Snapshot(UserOrder[k])>> ELSE <<>>)
         \o Selection(detector, k + 1)

IdlePoll ==
    [kind |-> Null, pc |-> "idle", selected |-> <<>>, ui |-> 0, newEmails |-> <<>>,
     ei |-> 0,
     passes |-> 0,                              \* passes begun so far
     updates |-> 0,                             \* instruction updates so far
     startBox |-> {},                           \* the mailbox when the pass began
     lost |-> FALSE,                            \* Gmail left out an unrecorded message
     dispatched |-> [id \in MessageIds |-> 0],  \* processNewEmail calls per message
     recognised |-> {},                         \* messages this pass skipped as existing
     conflicts |-> 0,                           \* creates the unique index rejected
     isPolling |-> FALSE,                       \* BackgroundPoller.isPolling
     timers |-> 0,                              \* intervals armed (pollingInterval)
     isPollRunning |-> FALSE,                   \* BackgroundPoller.isPollRunning
     inflight |-> 0,                            \* pollAllUsers cycles begun and not ended
     skips |-> 0,                               \* pollAllUsers calls that returned at once
     polled |-> {},                             \* <<user, part>> handled in this pass
     failed |-> {},                             \* users whose handling raised an error
     pending |-> {},                            \* fetched, not stored when the process stopped
     unfinished |-> {},                         \* in the agent's hands when the process stopped
     crashes |-> 0,                             \* stops of the process so far
     queryFailed |-> FALSE]                     \* the last cycle ended in pollAllUsers' catch

Terminal == {"done", "errored", "skipped"}

\* The locals of a pass at its start; pollAllUsers raises its flag first.
BeginPass(p, detector) ==
    [p EXCEPT !.kind = detector, !.pc = "user",
              !.selected = Selection(detector, 1), !.ui = 1,
              !.newEmails = <<>>, !.ei = 0,
              !.passes = @ + 1, !.startBox = mailbox,
              !.lost = FALSE, !.recognised = {}, !.queryFailed = FALSE,
              !.isPollRunning = IF detector = "poller" THEN TRUE ELSE @,
              !.inflight = IF detector = "poller" THEN @ + 1 ELSE @]

\* A cycle that ends without lowering its flag.
EndPassLeavingFlag(p) ==
    [p EXCEPT !.kind = Null, !.pc = "idle", !.selected = <<>>, !.ui = 0,
              !.newEmails = <<>>, !.ei = 0, !.polled = {}, !.failed = {},
              !.inflight = IF p.kind = "poller" THEN @ - 1 ELSE @]

\* The pass is over; pollAllUsers: finally { this.isPollRunning = false }.
EndPass(p) ==
    [p EXCEPT !.kind = Null, !.pc = "idle", !.selected = <<>>, !.ui = 0,
              !.newEmails = <<>>, !.ei = 0, !.polled = {}, !.failed = {},
              !.isPollRunning = IF p.kind = "poller" THEN FALSE ELSE @,
              !.inflight = IF p.kind = "poller" THEN @ - 1 ELSE @]

\* One user's emails are done with: the poller goes on to
\* pollUserCalendarEvents(user), the endpoint to its next user.
EmailsDone(p) ==
    IF p.kind = "poller"
    THEN [p EXCEPT !.pc = "calendar", !.newEmails = <<>>, !.ei = 0]
    ELSE [p EXCEPT !.pc = "user", !.ui = @ + 1, !.newEmails = <<>>, !.ei = 0]

\* An error of one user that is thrown on, out of the loop over the users.
UserFailureEndsPass(p) == EndPass(p)

\* An error while one user's emails are handled: the catch of
\* pollUserEmails, or the endpoint's catch per user, logs it.
UserFailure(p) ==
    EmailsDone([p EXCEPT !.failed = @ \cup {p.selected[p.ui].user}])

\* A guard that never finds a cycle running.
IsPollRunningIgnored(p) == FALSE

\* if (this.isPollRunning) { return }
IsPollRunning(p) == p.isPollRunning

\* pollAllUsers(), as far as its users query.
pollAllUsers(p) ==
    IF IsPollRunning(p) THEN [p EXCEPT !.skips = @ + 1]
    ELSE BeginPass(p, "poller")

(***************************************************************************)
(* Tasks and calendar events: the rows, and the locals of the requests     *)
(* that work on them.                                                      *)
(***************************************************************************)
\* Tasks the table may hold.
MaxTasks == 2

\* CREATE TYPE "TaskStatus" AS ENUM (...)
TaskStatus ==
    {"PENDING", "IN_PROGRESS", "WAITING_FOR_RESPONSE", "COMPLETED", "FAILED", "CANCELLED"}

\* prisma.task.create({ data: { userId, ..., status: 'PENDING' } }): emailId
\* and instr are the trigger context and the instruction in the task's
\* context, Null in a task the create_task tool makes.
TaskCreate(table, u, emailId, instr) ==
    Append(table, [userId |-> u, status |-> "PENDING", emailId |-> emailId, instr |-> instr])

\* prisma.task.update({ where: { id }, data: { status } }): a missing row
\* makes the call throw, and nothing is written.
TaskUpdate(table, t, status) ==
    IF t \in 1..Len(table) THEN [table EXCEPT ![t].status = status] ELSE table

\* prisma.task.findMany({ where: { status: 'PENDING', ... }, take: 10 }):
\* the ids, in the order of the table (the priorities are all the default).
RECURSIVE PendingTasks(_, _)
PendingTasks(table, t) ==
    IF t > Len(table) THEN <<>>
    ELSE IF table[t].status = "PENDING" THEN <<t>> \o PendingTasks(table, t + 1)
    ELSE PendingTasks(table, t + 1)

\* The process-tasks requests that may be in progress at a time.
Requests == {"r1", "r2"}

IdleSweep == [pc |-> "idle", tasks |-> <<>>, ti |-> 0]

\* The events Google Calendar may hold (all of user u2), and the callers of
\* syncCalendarEvents: pollUserCalendarEvents and the sync/calendar route.
EventIds == {"e1", "e2"}
Syncers == {"poller", "route"}

IdleSyncer == [ei |-> 0, events |-> <<>>, isNewEvent |-> FALSE, pc |-> "idle"]

\* Events the create_calendar_event tool may insert, and their ids in the
\* order of their creation.
MaxCreated == 3

CreatedId(n) ==
    CASE n = 1 -> "c1"
      [] n = 2 -> "c2"
      [] n = 3 -> "c3"
      [] OTHER -> "c4"

CreatedIds == {CreatedId(n) : n \in 1..MaxCreated}

IdleSync ==
    [calendar |-> {},                          \* events Google Calendar holds
     table |-> {},                             \* googleIds of the CalendarEvent rows
     syncer |-> [s \in Syncers |-> IdleSyncer],
     dispatched |-> [e \in EventIds \cup CreatedIds |-> 0],
                                               \* processNewCalendarEvent calls per event
     created |-> 0,                            \* events inserted by createEvent
     runs |-> <<>>]                            \* agent runs in progress (see ExternalEvent)

AgentEvents == {[src |-> "m1", from |-> f] : f \in {FromSelf, FromSelfNamed, FromBob}}

AgentInit ==
    /\ users = UserRows
    /\ instructions = InstructionRows
    /\ run = IdleRun
    /\ effects = <<>>
    /\ crm = {}
    /\ contactTable = {}
    /\ notifications = <<>>
    /\ reply = Null
    /\ fuel = 0
    /\ mailbox = {}
    /\ emailTable = <<>>
    /\ poll = IdlePoll
    /\ tasks = <<>>
    /\ sweep = [w \in Requests |-> IdleSweep]
    /\ sync = IdleSync

AgentNext ==
    \/ \E kind \in RunKinds, u \in UserIds, ev \in AgentEvents :
          /\ kind = "chat" => u = "u1"
          /\ kind = "executor" => u # "u2"
          /\ kind \in {"chat", "executor"} => ev.from = FromBob
          /\ Invoke(kind, u, ev)
    \/ \E cs \in ProposalsWithin[fuel] : OracleProposes(cs)
    \/ \E hasCalls \in BOOLEAN, content \in BOOLEAN : OracleStops(hasCalls, content)
    \/ OracleDeclines
    \/ \E class \in {"quota", "other"} : OracleFails(class)
    \/ \E outcome \in AdapterOutcomes : ExecuteCall(outcome)

SpecAgent == AgentInit /\ [][AgentNext]_vars

(***************************************************************************)
(* Detector passes, one after the other, with the agent runs they start.   *)
(***************************************************************************)
agentVars == <<users, run, effects, crm, contactTable, notifications, reply, fuel>>

\* pollAllUsers / POST poll-emails: the users query.
PollStart(detector) ==
    /\ poll.pc = "idle"
    /\ poll.passes < MaxPasses
    /\ poll' = BeginPass(poll, detector)
    /\ UNCHANGED <<agentVars, instructions, mailbox, emailTable>>
    /\ UNCHANGED storeVars

\* for (const user of users): no user is left.
PollDone ==
    /\ poll.pc = "user"
    /\ poll.ui > Len(poll.selected)
    /\ poll' = EndPass(poll)
    /\ UNCHANGED <<agentVars, instructions, mailbox, emailTable>>
    /\ UNCHANGED storeVars

\* The user is passed over: no NEW_EMAIL instruction among those the
\* poller's query included, or no Google access token.
PollSkipUser ==
    /\ poll.pc = "user"
    /\ poll.ui <= Len(poll.selected)
    /\ LET s == poll.selected[poll.ui]
       IN  (poll.kind = "poller" /\ ~s.emailInstr) \/ ~s.google
    /\ poll' = EmailsDone([poll EXCEPT !.polled = @ \cup {<<poll.selected[poll.ui].user, "emails">>}])
    /\ UNCHANGED <<agentVars, instructions, mailbox, emailTable>>
    /\ UNCHANGED storeVars

\* The watermark and gmail.getNewEmailsSince(sinceDate).  `got` is what
\* comes back: messages.list yields at most 20 ids, getEmailDetails drops
\* a message it fails on, and a failing list yields [].
PollFetch(got) ==
    /\ poll.pc = "user"
    /\ poll.ui <= Len(poll.selected)
    /\ LET s == poll.selected[poll.ui]
           since == SinceDate(emailTable, s.user)
           full == AfterQuery(mailbox, s.user, since)
           loses == \E id \in full \ got : ~EmailExists(emailTable, s.user, id)
       IN  /\ ~(poll.kind = "poller" /\ ~s.emailInstr)
           /\ s.google
           /\ got \subseteq full
           /\ poll' = IF got = {}
                      THEN EmailsDone([poll EXCEPT !.lost = @ \/ loses,
                                                   !.polled = @ \cup {<<s.user, "emails">>}])
                      ELSE [poll EXCEPT !.pc = "email", !.newEmails = NewestFirst(got),
                                        !.ei = 1, !.lost = @ \/ loses,
                                        !.polled = @ \cup {<<s.user, "emails">>}]
    /\ UNCHANGED <<agentVars, instructions, mailbox, emailTable>>
    /\ UNCHANGED storeVars

\* The user's Google token has expired: users.messages.list is answered
\* with 401, getNewEmailsSince logs the error and returns [], and the pass
\* takes the user to have no new email.
PollTokenExpired ==
    /\ poll.pc = "user"
    /\ poll.ui <= Len(poll.selected)
    /\ LET s == poll.selected[poll.ui]
           full == AfterQuery(mailbox, s.user, SinceDate(emailTable, s.user))
           loses == \E id \in full : ~EmailExists(emailTable, s.user, id)
       IN  /\ ~(poll.kind = "poller" /\ ~s.emailInstr)
           /\ s.google
           /\ poll' = EmailsDone([poll EXCEPT !.lost = @ \/ loses,
                                              !.polled = @ \cup {<<s.user, "emails">>}])
    /\ UNCHANGED <<agentVars, instructions, mailbox, emailTable>>
    /\ UNCHANGED storeVars

\* for (const email of newEmails): no email is left.
PollNextUser ==
    /\ poll.pc = "email"
    /\ poll.ei > Len(poll.newEmails)
    /\ poll' = EmailsDone(poll)
    /\ UNCHANGED <<agentVars, instructions, mailbox, emailTable>>
    /\ UNCHANGED storeVars

\* pollUserCalendarEvents(user): it returns early, or syncs the calendar, or
\* catches what the sync threw; then the next user.
PollCalendar(threw) ==
    /\ poll.pc = "calendar"
    /\ threw => fuel > 0
    /\ fuel' = IF threw THEN fuel - 1 ELSE fuel
    /\ poll' = [poll EXCEPT !.pc = "user", !.ui = @ + 1,
                            !.polled = @ \cup {<<poll.selected[poll.ui].user, "calendar">>},
                            !.failed = IF threw THEN @ \cup {poll.selected[poll.ui].user} ELSE @]
    /\ UNCHANGED <<users, instructions, run, effects, crm, contactTable, notifications,
                   reply, mailbox, emailTable>>
    /\ UNCHANGED storeVars

\* The watermark query (prisma) throws: the user's emails are given up.
PollWatermarkFails ==
    /\ poll.pc = "user"
    /\ poll.ui <= Len(poll.selected)
    /\ LET s == poll.selected[poll.ui]
       IN  ~(poll.kind = "poller" /\ ~s.emailInstr) /\ s.google
    /\ fuel > 0
    /\ fuel' = fuel - 1
    /\ poll' = UserFailure([poll EXCEPT !.polled = @ \cup {<<poll.selected[poll.ui].user, "emails">>}])
    /\ UNCHANGED <<users, instructions, run, effects, crm, contactTable, notifications,
                   reply, mailbox, emailTable>>
    /\ UNCHANGED storeVars

\* prisma.email.findFirst or prisma.email.create throws for an email: the
\* poller catches that per email, the endpoint per user.
PollStoreFails ==
    /\ poll.pc = "email"
    /\ poll.ei <= Len(poll.newEmails)
    /\ fuel > 0
    /\ fuel' = fuel - 1
    /\ poll' = IF poll.kind = "poller"
               THEN [poll EXCEPT !.ei = @ + 1,
                                 !.failed = @ \cup {poll.selected[poll.ui].user}]
               ELSE UserFailure(poll)
    /\ UNCHANGED <<users, instructions, run, effects, crm, contactTable, notifications,
                   reply, mailbox, emailTable>>
    /\ UNCHANGED storeVars

\* if (existingEmail) continue
PollSkipExisting ==
    /\ poll.pc = "email"
    /\ poll.ei <= Len(poll.newEmails)
    /\ EmailExists(emailTable, poll.selected[poll.ui].user, poll.newEmails[poll.ei])
    /\ poll' = [poll EXCEPT !.ei = @ + 1, !.recognised = @ \cup {poll.newEmails[poll.ei]}]
    /\ UNCHANGED <<agentVars, instructions, mailbox, emailTable>>
    /\ UNCHANGED storeVars

\* prisma.email.create.  The unique index rejects a second row with the
\* gmailId: the poller catches that per email, the endpoint per user.
PollStore ==
    /\ poll.pc = "email"
    /\ poll.ei <= Len(poll.newEmails)
    /\ LET u == poll.selected[poll.ui].user
           id == poll.newEmails[poll.ei]
       IN  /\ ~EmailExists(emailTable, u, id)
           /\ IF GmailIdTaken(emailTable, id)
              THEN /\ emailTable' = emailTable
                   /\ poll' = IF poll.kind = "poller"
                              THEN [poll EXCEPT !.ei = @ + 1, !.conflicts = @ + 1]
                              ELSE EmailsDone([poll EXCEPT !.conflicts = @ + 1])
              ELSE /\ emailTable' = EmailCreate(emailTable, u, Message(id))
                   /\ poll' = [poll EXCEPT !.pc = "dispatch"]
    /\ UNCHANGED <<agentVars, instructions, mailbox>>
    /\ UNCHANGED storeVars

\* await proactiveAgent.processNewEmail(user.id, { from, subject, body, messageId })
PollDispatch ==
    /\ poll.pc = "dispatch"
    /\ LET u == poll.selected[poll.ui].user
           id == poll.newEmails[poll.ei]
       IN  /\ \E found \in FindMany(u, "NEW_EMAIL") :
                  run' = StartRun("email", u, [src |-> id, from |-> Message(id).from], found)
           /\ poll' = [poll EXCEPT !.pc = "await", !.dispatched[id] = @ + 1]
    /\ UNCHANGED <<users, instructions, effects, crm, contactTable, notifications,
                   reply, fuel, mailbox, emailTable>>
    /\ UNCHANGED storeVars

\* processNewEmail has returned (it never throws): on to the next email.
PollResume ==
    /\ poll.pc = "await"
    /\ run.pc \in Terminal
    /\ run' = IdleRun
    /\ poll' = [poll EXCEPT !.pc = "email", !.ei = @ + 1]
    /\ UNCHANGED <<users, instructions, effects, crm, contactTable, notifications,
                   reply, fuel, mailbox, emailTable>>
    /\ UNCHANGED storeVars

\* PUT on the instructions route: { id, isActive }.
UpdateInstruction(i, isActive) ==
    /\ poll.updates < MaxUpdates
    /\ instructions[i] # Gone
    /\ instructions' = [instructions EXCEPT ![i].isActive = isActive]
    /\ poll' = [poll EXCEPT !.updates = @ + 1]
    /\ UNCHANGED <<agentVars, mailbox, emailTable>>
    /\ UNCHANGED storeVars

\* A message reaches a mailbox.
MailArrives(id) ==
    /\ id \notin mailbox
    /\ mailbox' = mailbox \cup {id}
    /\ UNCHANGED <<agentVars, instructions, emailTable, poll>>
    /\ UNCHANGED storeVars

\* A start() that does not look whether the poller is started.
AlreadyStartedIgnored(p) == FALSE

\* start(): if (this.isPolling) { return }
AlreadyStarted(p) == p.isPolling

\* start(): on a started poller it returns at once; else it raises
\* isPolling, calls pollAllUsers() and sets the interval.
PollerStart ==
    /\ ~AlreadyStarted(poll)
    /\ poll.kind # "manual"
    /\ poll' = pollAllUsers([poll EXCEPT !.isPolling = TRUE, !.timers = @ + 1])
    /\ poll'.passes <= MaxPasses
    /\ poll'.skips <= MaxSkips
    /\ UNCHANGED <<agentVars, instructions, mailbox, emailTable>>
    /\ UNCHANGED storeVars

\* stop(): clearInterval(this.pollingInterval), the interval set last; a
\* cycle that is running goes on.
PollerStop ==
    /\ poll.isPolling
    /\ poll' = [poll EXCEPT !.isPolling = FALSE,
                            !.timers = IF @ > 0 THEN @ - 1 ELSE 0]
    /\ UNCHANGED <<agentVars, instructions, mailbox, emailTable>>
    /\ UNCHANGED storeVars

\* An interval fires: pollAllUsers().
PollerTick ==
    /\ poll.timers > 0
    /\ poll.kind # "manual"
    /\ poll' = pollAllUsers(poll)
    /\ poll'.passes <= MaxPasses
    /\ poll'.skips <= MaxSkips
    /\ UNCHANGED <<agentVars, instructions, mailbox, emailTable>>
    /\ UNCHANGED storeVars

\* pollAllUsers(): the query for the users throws (prisma.user.findMany);
\* the catch logs it and the finally lowers the flag: the cycle is over,
\* with no user handled.
PollQueryFails ==
    /\ poll.timers > 0
    /\ poll.pc = "idle"
    /\ ~IsPollRunning(poll)
    /\ poll.passes < MaxPasses
    /\ fuel > 0
    /\ fuel' = fuel - 1
    /\ poll' = [EndPass([BeginPass(poll, "poller") EXCEPT !.selected = <<>>])
                    EXCEPT !.queryFailed = TRUE]
    /\ UNCHANGED <<users, instructions, run, effects, crm, contactTable, notifications,
                   reply, mailbox, emailTable>>
    /\ UNCHANGED storeVars

\* The process stops in the middle of a pass and is started again: what was
\* in memory is gone, the tables and the mailboxes stay.
Crash ==
    /\ poll.pc # "idle"
    /\ poll.crashes < MaxCrashes
    /\ LET u == poll.selected[poll.ui].user
           left == {poll.newEmails[k] : k \in 1..Len(poll.newEmails)}
       IN  poll' = [poll EXCEPT !.kind = Null, !.pc = "idle", !.selected = <<>>, !.ui = 0,
                                !.newEmails = <<>>, !.ei = 0, !.polled = {}, !.failed = {},
                                !.isPolling = FALSE, !.timers = 0,
                                !.isPollRunning = FALSE, !.inflight = 0,
                                !.crashes = @ + 1,
                                !.pending = @ \cup {id \in left : ~EmailExists(emailTable, u, id)},
                                !.unfinished = IF poll.pc \in {"dispatch", "await"}
                                                  /\ run.pc \notin {"done", "skipped"}
                                               THEN @ \cup {poll.newEmails[poll.ei]} ELSE @]
    /\ run' = IdleRun
    /\ UNCHANGED <<users, instructions, effects, crm, contactTable, notifications,
                   reply, fuel, mailbox, emailTable>>
    /\ UNCHANGED storeVars

PollInit ==
    /\ users = UserRows
    /\ instructions = InstructionRows
    /\ run = IdleRun
    /\ effects = <<>>
    /\ crm = {}
    /\ contactTable = {}
    /\ notifications = <<>>
    /\ reply = Null
    /\ fuel = PollSpecial
    /\ mailbox = {}
    /\ emailTable = <<>>
    /\ poll = IdlePoll
    /\ tasks = <<>>
    /\ sweep = [w \in Requests |-> IdleSweep]
    /\ sync = IdleSync

PollNext ==
    \/ \E detector \in Detectors : PollStart(detector)
    \/ PollDone
    \/ PollSkipUser
    \/ \E got \in SUBSET mailbox : PollFetch(got)
    \/ PollTokenExpired
    \/ PollNextUser
    \/ PollCalendar(FALSE)
    \/ PollSkipExisting
    \/ PollStore
    \/ PollDispatch
    \/ PollResume
    \/ \E i \in EmailInstrIds, isActive \in BOOLEAN : UpdateInstruction(i, isActive)
    \/ \E id \in MessageIds : MailArrives(id)
    \/ \E cs \in ProposalsWithin[fuel] : OracleProposes(cs)
    \/ \E hasCalls \in BOOLEAN, content \in BOOLEAN : OracleStops(hasCalls, content)
    \/ \E class \in {"quota", "other"} : OracleFails(class)
    \/ \E outcome \in AdapterOutcomes : ExecuteCall(outcome)

SpecPoll == PollInit /\ [][PollNext]_vars

(***************************************************************************)
(* The process: the poller's timer, the endpoint, errors of the store and  *)
(* of the calendar sync, and stops of the process, over full mailboxes.    *)
(***************************************************************************)
\* Both users that are connected to Google have an active NEW_EMAIL
\* instruction; u3, who is not connected, has an instruction of another kind.
CycleRows ==
    [i \in InstrIds |->
        CASE i = "i1" -> Instr("u1", "NEW_EMAIL", TRUE)
          [] i = "i2" -> Instr("u3", "NEW_CONTACT", TRUE)
          [] i = "i3" -> Instr("u2", "NEW_CALENDAR_EVENT", TRUE)
          [] OTHER -> Instr("u2", "NEW_EMAIL", TRUE)]

CycleInit ==
    /\ users = UserRows
    /\ instructions = CycleRows
    /\ run = IdleRun
    /\ effects = <<>>
    /\ crm = {}
    /\ contactTable = {}
    /\ notifications = <<>>
    /\ reply = Null
    /\ fuel = CycleSpecial
    /\ mailbox = MessageIds
    /\ emailTable = <<>>
    /\ poll = IdlePoll
    /\ tasks = <<>>
    /\ sweep = [w \in Requests |-> IdleSweep]
    /\ sync = IdleSync

CycleNext ==
    \/ PollerStart
    \/ PollerStop
    \/ PollerTick
    \/ PollQueryFails
    \/ PollStart("manual")
    \/ PollDone
    \/ PollSkipUser
    \/ \E got \in SUBSET mailbox : PollFetch(got)
    \/ PollWatermarkFails
    \/ PollNextUser
    \/ \E threw \in BOOLEAN : PollCalendar(threw)
    \/ PollSkipExisting
    \/ PollStore
    \/ PollStoreFails
    \/ PollDispatch
    \/ PollResume
    \/ Crash
    \/ \E cs \in ProposalsWithin[fuel] : OracleProposes(cs)
    \/ \E hasCalls \in BOOLEAN, content \in BOOLEAN : OracleStops(hasCalls, content)
    \/ \E class \in {"quota", "other"} : OracleFails(class)
    \/ \E outcome \in AdapterOutcomes : ExecuteCall(outcome)

SpecCycle == CycleInit /\ [][CycleNext]_vars

(***************************************************************************)
(* The Task table: the create_task and update_task_status tools, the Gmail *)
(* webhook, and the process-tasks request.                                 *)
(***************************************************************************)
\* u1 has two NEW_EMAIL instructions and one for calendar events, u2 has
\* one NEW_EMAIL instruction.
StoreRows ==
    [i \in InstrIds |->
        CASE i = "i1" -> Instr("u1", "NEW_EMAIL", TRUE)
          [] i = "i2" -> Instr("u1", "NEW_EMAIL", TRUE)
          [] i = "i3" -> Instr("u1", "NEW_CALENDAR_EVENT", TRUE)
          [] OTHER -> Instr("u2", "NEW_EMAIL", TRUE)]

\* case 'create_task'
CreateTask(u) ==
    /\ Len(tasks) < MaxTasks
    /\ tasks' = TaskCreate(tasks, u, Null, Null)
    /\ UNCHANGED <<agentVars, instructions, detectorVars, sweep, sync>>

\* case 'update_task_status' in the tool service of user u: the status the
\* oracle names is written to the row the oracle names.
UpdateTaskStatus(u, t, status) ==
    /\ u \in Users
    /\ t \in 1..Len(tasks)
    /\ tasks' = TaskUpdate(tasks, t, status)
    /\ UNCHANGED <<agentVars, instructions, detectorVars, sweep, sync>>

\* for (const instruction of instructions) await processOngoingInstruction(...)
RECURSIVE processOngoingInstructions(_, _, _, _)
processOngoingInstructions(table, u, emailId, found) ==
    IF found = <<>> THEN table
    ELSE processOngoingInstructions(TaskCreate(table, u, emailId, Head(found)),
                                    u, emailId, Tail(found))

\* POST on the Gmail webhook, { eventType: 'new_email', userId, emailId }:
\* a task for every active NEW_EMAIL instruction of the user.
GmailWebhook(u, emailId) ==
    /\ u \in Users
    /\ \E found \in FindMany(u, "NEW_EMAIL") :
          /\ Len(tasks) + Len(found) <= MaxTasks
          /\ tasks' = processOngoingInstructions(tasks, u, emailId, found)
    /\ UNCHANGED <<agentVars, instructions, detectorVars, sweep, sync>>

\* POST on process-tasks, request w: the pending tasks are read.
SweepStart(w) ==
    /\ sweep[w].pc = "idle"
    /\ sweep' = [sweep EXCEPT ![w] = [pc |-> "claim", tasks |-> PendingTasks(tasks, 1),
                                      ti |-> 1]]
    /\ UNCHANGED <<agentVars, instructions, detectorVars, tasks, sync>>

\* for (const task of tasks): the task is marked IN_PROGRESS, by its id.
SweepClaim(w) ==
    /\ sweep[w].pc = "claim"
    /\ sweep[w].ti <= Len(sweep[w].tasks)
    /\ tasks' = TaskUpdate(tasks, sweep[w].tasks[sweep[w].ti], "IN_PROGRESS")
    /\ sweep' = [sweep EXCEPT ![w].pc = "process"]
    /\ UNCHANGED <<agentVars, instructions, detectorVars, sync>>

\* processTask(task): the handlers of instruction tasks and processWithAI
\* end by marking the task COMPLETED, the handlers chosen by the title
\* return a text and mark nothing, and an exception marks the task FAILED.
SweepProcess(w, outcome) ==
    /\ sweep[w].pc = "process"
    /\ LET t == sweep[w].tasks[sweep[w].ti] IN
           /\ outcome = "returned" => tasks[t].instr = Null
           /\ tasks' = CASE outcome = "completed" -> TaskUpdate(tasks, t, "COMPLETED")
                         [] outcome = "threw" -> TaskUpdate(tasks, t, "FAILED")
                         [] OTHER -> tasks
    /\ sweep' = [sweep EXCEPT ![w].pc = "claim", ![w].ti = @ + 1]
    /\ UNCHANGED <<agentVars, instructions, detectorVars, sync>>

\* The loop is over: the response is sent.
SweepDone(w) ==
    /\ sweep[w].pc = "claim"
    /\ sweep[w].ti > Len(sweep[w].tasks)
    /\ sweep' = [sweep EXCEPT ![w] = IdleSweep]
    /\ UNCHANGED <<agentVars, instructions, detectorVars, tasks, sync>>

TasksInit ==
    /\ users = UserRows
    /\ instructions = StoreRows
    /\ run = IdleRun
    /\ effects = <<>>
    /\ crm = {}
    /\ contactTable = {}
    /\ notifications = <<>>
    /\ reply = Null
    /\ fuel = 0
    /\ mailbox = {}
    /\ emailTable = <<>>
    /\ poll = IdlePoll
    /\ tasks = <<>>
    /\ sweep = [w \in Requests |-> IdleSweep]
    /\ sync = IdleSync

TasksNext ==
    \/ CreateTask("u1")
    \/ \E u \in {"u1", "u2"}, t \in 1..MaxTasks, status \in TaskStatus :
          UpdateTaskStatus(u, t, status)
    \/ \E u \in {"u1", "u2"} : GmailWebhook(u, "m1")
    \/ SweepStart("r1")
    \/ SweepClaim("r1")
    \/ \E outcome \in {"completed", "returned", "threw"} : SweepProcess("r1", outcome)
    \/ SweepDone("r1")

SpecTasks == TasksInit /\ [][TasksNext]_vars

\* The task table under process-tasks requests that overlap.
SweepsNext ==
    \/ CreateTask("u1")
    \/ \E u \in {"u1", "u2"} : GmailWebhook(u, "m1")
    \/ \E w \in Requests : SweepStart(w)
    \/ \E w \in Requests : SweepClaim(w)
    \/ \E w \in Requests, outcome \in {"completed", "returned", "threw"} :
          SweepProcess(w, outcome)
    \/ \E w \in Requests : SweepDone(w)

SpecSweeps == TasksInit /\ [][SweepsNext]_vars

(***************************************************************************)
(* The instructions route, and the runs that start while it is used.       *)
(***************************************************************************)
\* DELETE on the instructions route: prisma.ongoingInstruction.delete.
DeleteInstruction(i) ==
    /\ instructions[i] # Gone
    /\ instructions' = [instructions EXCEPT ![i] = Gone]
    /\ UNCHANGED <<agentVars, detectorVars, storeVars>>

InstructionsNext ==
    \/ \E i \in InstrIds, isActive \in BOOLEAN : UpdateInstruction(i, isActive)
    \/ \E i \in InstrIds : DeleteInstruction(i)
    \/ \E kind \in {"email", "calendar"}, u \in {"u1", "u2"} :
          Invoke(kind, u, [from |-> FromCarol, src |-> "m1"])
    \/ \E hasCalls \in BOOLEAN : OracleStops(hasCalls, FALSE)
    \/ OracleDeclines

SpecInstructions == TasksInit /\ [][InstructionsNext]_vars

(***************************************************************************)
(* Calendar syncs of one user (u2), which may overlap: the poller's and    *)
(* the sync/calendar route's.                                              *)
(***************************************************************************)
\* An event appears in the user's Google Calendar.
EventAppears(e) ==
    /\ e \notin sync.calendar
    /\ sync' = [sync EXCEPT !.calendar = @ \cup {e}]
    /\ UNCHANGED <<agentVars, instructions, detectorVars, tasks, sweep>>

\* response.data.items: the events of the window, by start time (e1, e2).
EventsList(calendar) ==
    (IF "e1" \in calendar THEN <<"e1">> ELSE <<>>)
        \o (IF "e2" \in calendar THEN <<"e2">> ELSE <<>>)

\* syncCalendarEvents: calendar.events.list({ ... })
SyncStart(s) ==
    /\ sync.syncer[s].pc = "idle"
    /\ sync' = [sync EXCEPT !.syncer[s] =
                   [ei |-> 1, events |-> EventsList(sync.calendar),
                    isNewEvent |-> FALSE, pc |-> "find"]]
    /\ UNCHANGED <<agentVars, instructions, detectorVars, tasks, sweep>>

\* syncEvent: existingEvent = await prisma.calendarEvent.findUnique(...);
\* isNewEvent = !existingEvent
SyncFind(s) ==
    /\ sync.syncer[s].pc = "find"
    /\ sync.syncer[s].ei <= Len(sync.syncer[s].events)
    /\ LET e == sync.syncer[s].events[sync.syncer[s].ei] IN
           sync' = [sync EXCEPT !.syncer[s].isNewEvent = e \notin sync.table,
                                !.syncer[s].pc = "upsert"]
    /\ UNCHANGED <<agentVars, instructions, detectorVars, tasks, sweep>>

\* syncEvent: await prisma.calendarEvent.upsert({ where: { googleId }, ... });
\* an event that was not new is done with.
SyncUpsert(s) ==
    /\ sync.syncer[s].pc = "upsert"
    /\ LET e == sync.syncer[s].events[sync.syncer[s].ei]
           isNew == sync.syncer[s].isNewEvent
       IN  sync' = [sync EXCEPT !.table = @ \cup {e},
                                !.syncer[s].pc = IF isNew THEN "trigger" ELSE "find",
                                !.syncer[s].ei = IF isNew THEN @ ELSE @ + 1]
    /\ UNCHANGED <<agentVars, instructions, detectorVars, tasks, sweep>>

\* syncEvent: if (isNewEvent) await this.triggerProactiveInstructions(...),
\* which calls processNewCalendarEvent; counted is a call that gets as far
\* as the oracle.
triggerProactiveInstructions(s) ==
    /\ sync.syncer[s].pc = "trigger"
    /\ LET e == sync.syncer[s].events[sync.syncer[s].ei]
           runs == EntryCheck("calendar", "u2", [from |-> FromCarol, src |-> e]) = "go"
       IN  sync' = [sync EXCEPT !.dispatched[e] = IF runs THEN @ + 1 ELSE @,
                                !.syncer[s].pc = "find",
                                !.syncer[s].ei = @ + 1]
    /\ UNCHANGED <<agentVars, instructions, detectorVars, tasks, sweep>>

\* syncCalendarEvents: return { success: true, count }
SyncDone(s) ==
    /\ sync.syncer[s].pc = "find"
    /\ sync.syncer[s].ei > Len(sync.syncer[s].events)
    /\ sync' = [sync EXCEPT !.syncer[s] = IdleSyncer]
    /\ UNCHANGED <<agentVars, instructions, detectorVars, tasks, sweep>>

SyncNext ==
    \/ \E e \in EventIds : EventAppears(e)
    \/ \E s \in Syncers : SyncStart(s)
    \/ \E s \in Syncers : SyncFind(s)
    \/ \E s \in Syncers : SyncUpsert(s)
    \/ \E s \in Syncers : triggerProactiveInstructions(s)
    \/ \E s \in Syncers : SyncDone(s)

SpecSync == AgentInit /\ [][SyncNext]_vars

(***************************************************************************)
(* Runs of u2's agent that create calendar events: createEvent syncs the   *)
(* event it has inserted before it returns, so a run may start inside a    *)
(* tool call of another.  sync.runs holds the runs in progress, the        *)
(* innermost last.                                                         *)
(***************************************************************************)
\* An event outside the program starts a run: an email (processNewEmail)
\* or an event of the calendar (processNewCalendarEvent).
ExternalEvent(kind, src) ==
    /\ sync.runs = <<>>
    /\ EntryCheck(kind, "u2", [from |-> FromCarol, src |-> src]) = "go"
    /\ sync' = [sync EXCEPT !.runs = <<[event |-> src, kind |-> kind,
                                        pc |-> "oracle", round |-> 0]>>]
    /\ UNCHANGED <<agentVars, instructions, detectorVars, tasks, sweep>>

\* The oracle's answer to the innermost run asks for create_calendar_event,
\* and the run has a round left for it.
OracleAsksForEvent ==
    /\ sync.runs # <<>>
    /\ LET top == Len(sync.runs) IN
           /\ sync.runs[top].pc = "oracle"
           /\ sync.runs[top].round < RoundBudget(sync.runs[top].kind)
           /\ sync' = [sync EXCEPT !.runs[top].pc = "exec"]
    /\ UNCHANGED <<agentVars, instructions, detectorVars, tasks, sweep>>

\* The innermost run is over (no tool asked for, or no round left):
\* the function returns, and with it the tool call that had started it.
\* That call's run asks the oracle again if its loop feeds results back,
\* or else is over as well.
RECURSIVE Unwind(_)
Unwind(runs) ==
    IF runs = <<>> THEN <<>>
    ELSE LET top == Len(runs)
             r == runs[top]
         IN  IF KeepsHistory(r.kind)
             THEN [runs EXCEPT ![top].pc = "oracle", ![top].round = @ + 1]
             ELSE Unwind(SubSeq(runs, 1, top - 1))

RunReturns ==
    /\ sync.runs # <<>>
    /\ sync.runs[Len(sync.runs)].pc = "oracle"
    /\ sync' = [sync EXCEPT !.runs = Unwind(SubSeq(sync.runs, 1, Len(sync.runs) - 1))]
    /\ UNCHANGED <<agentVars, instructions, detectorVars, tasks, sweep>>

\* case 'create_calendar_event': CalendarService.createEvent inserts the
\* event, then awaits syncEvent for it: the row is new, so it is upserted
\* and processNewCalendarEvent is called for it.  That run starts if the
\* user has a token and an active NEW_CALENDAR_EVENT instruction; if not,
\* the tool call returns.
createEvent ==
    /\ sync.runs # <<>>
    /\ sync.runs[Len(sync.runs)].pc = "exec"
    /\ sync.created < MaxCreated
    /\ LET e == CreatedId(sync.created + 1)
           starts == EntryCheck("calendar", "u2", [from |-> FromCarol, src |-> e]) = "go"
           inner == [event |-> e, kind |-> "calendar", pc |-> "oracle", round |-> 0]
       IN  sync' = [sync EXCEPT !.created = @ + 1,
                                !.calendar = @ \cup {e},
                                !.table = @ \cup {e},
                                !.dispatched[e] = IF starts THEN @ + 1 ELSE @,
                                !.runs = IF starts THEN Append(@, inner) ELSE Unwind(@)]
    /\ UNCHANGED <<agentVars, instructions, detectorVars, tasks, sweep>>

ChainNext ==
    \/ \E i \in {"i3"}, isActive \in BOOLEAN : UpdateInstruction(i, isActive)
    \/ ExternalEvent("email", "m3")
    \/ ExternalEvent("calendar", "e1")
    \/ OracleAsksForEvent
    \/ RunReturns
    \/ createEvent

SpecChain == CycleInit /\ [][ChainNext]_vars

(***************************************************************************)
(* Detector passes with no failure, and the manual email sync between      *)
(* them.                                                                   *)
(***************************************************************************)
\* for (const message of messages) await this.syncEmail(userId, message.id):
\* a row for every message that has none; a create that the unique index
\* rejects is logged.
RECURSIVE syncEmail(_, _, _)
syncEmail(table, u, ids) ==
    IF ids = <<>> THEN table
    ELSE LET id == Head(ids)
             stored == IF EmailExists(table, u, id) \/ GmailIdTaken(table, id)
                       THEN table
                       ELSE EmailCreate(table, u, Message(id))
         IN  syncEmail(stored, u, Tail(ids))

\* POST on the email sync route: GmailService.syncEmails(user.id, 100)
\* stores the messages of the inbox and hands none to the agent.
SyncEmails(u) ==
    /\ users[u].google
    /\ LET inbox == {id \in mailbox : Message(id).owner = u} IN
           /\ emailTable' = syncEmail(emailTable, u, NewestFirst(inbox))
           /\ emailTable' # emailTable
    /\ UNCHANGED <<agentVars, instructions, mailbox, poll>>
    /\ UNCHANGED storeVars

InboxNext ==
    \/ \E detector \in Detectors : PollStart(detector)
    \/ PollDone
    \/ PollSkipUser
    \/ \E got \in SUBSET mailbox : PollFetch(got) /\ ~poll'.lost
    \/ PollNextUser
    \/ PollCalendar(FALSE)
    \/ PollSkipExisting
    \/ PollStore
    \/ PollDispatch
    \/ PollResume
    \/ \E u \in {"u1", "u2"} : SyncEmails(u)
    \/ OracleStops(FALSE, FALSE)

SpecInbox == CycleInit /\ [][InboxNext]_vars

(***************************************************************************)
(* Properties.                                                             *)
(***************************************************************************)

\* C1: however often the detectors pass over a mailbox, a message id has at
\* most one Email row and at most one processNewEmail call; a later pass
\* finds the row (it never attempts a second create) and starts no run for
\* a message it has found.
C1_OneRecordOneRun ==
    /\ \A id \in MessageIds :
          /\ Cardinality({k \in 1..Len(emailTable) : emailTable[k].gmailId = id}) <= 1
          /\ poll.dispatched[id] <= 1
          /\ id \in poll.recognised =>
                 \E k \in 1..Len(emailTable) : emailTable[k].gmailId = id
    /\ poll.conflicts = 0
    /\ poll.pc \in {"dispatch", "await"} =>
          /\ poll.newEmails[poll.ei] \notin poll.recognised
          /\ poll.dispatched[poll.newEmails[poll.ei]] = (IF poll.pc = "await" THEN 1 ELSE 0)

\* A second pass is over; it met a message that the first pass had handed
\* to the agent, and skipped it.
C1_Witness ==
    /\ poll.pc = "idle"
    /\ poll.passes = 2
    /\ \E id \in poll.recognised : poll.dispatched[id] = 1

\* C2: an event whose originator is the acting user's own address never
\* gets an oracle call or a tool call, whatever the kind of the event.
C2_SelfOriginNeverDispatched ==
    (/\ run.pc # "idle"
     /\ run.kind \in {"email", "calendar", "contact"}
     /\ run.user \in Users
     /\ extractEmail(run.event.from) = users[run.user].email)
        => (run.oracleCalls = 0 /\ run.executed = 0)

C4_InvalidArgumentsStopBeforeAdapter ==
    /\ \A k \in 1..Len(effects) : effects[k].shape = "ok"
    /\ run.pc = "oracleN" =>
          \A i \in 1..Len(run.completion.calls) :
              ~SchemaValid(MenuCall(run.completion.calls[i])) =>
                  \E j \in 1..Len(run.history) :
                      /\ run.history[j].role = "tool"
                      /\ run.history[j].id = run.completion.calls[i].id
                      /\ run.history[j].err

\* C5: within a round no call is passed over because another one failed,
\* and the history of the next oracle call holds exactly one result for
\* each call of the round, under the call's id.
C5_EveryCallOfTheRoundAnswered ==
    /\ (run.pc = "exec" /\ KeepsHistory(run.kind)) =>
          Len(run.toolResults) = run.idx - 1
    /\ run.pc = "exec" => run.executed >= run.idx - 1
    /\ run.pc = "oracleN" =>
          \A i \in 1..Len(run.completion.calls) :
              Cardinality({j \in 1..Len(run.history) :
                              /\ run.history[j].role = "tool"
                              /\ run.history[j].id = run.completion.calls[i].id}) = 1

\* The next oracle call is due; the round before it had a call that failed
\* and, after it, a call that succeeded, and both results are in the history.
C5_Witness ==
    /\ run.pc = "oracleN"
    /\ \E i, j \in 1..Len(run.history) :
          /\ i < j
          /\ run.history[i].role = "tool" /\ run.history[i].err
          /\ run.history[j].role = "tool" /\ ~run.history[j].err
          /\ run.history[i].round = run.round /\ run.history[j].round = run.round

\* C6: no create_contact for the acting user's own address reaches HubSpot,
\* and no Contact row holds the owner's own address.
C6_OwnContactNeverCreated ==
    /\ \A k \in 1..Len(effects) :
          (effects[k].tool = "create_contact" /\ effects[k].user \in Users) =>
              ToLowerCase(effects[k].email) # ToLowerCase(users[effects[k].user].email)
    /\ \A c \in contactTable :
          c.userId \in Users => ToLowerCase(c.email) # ToLowerCase(users[c.userId].email)

\* C7: a run for a user without an active NEW_EMAIL instruction asks the
\* oracle nothing and executes nothing; and once a pass is over (Gmail has
\* held nothing back, no instruction was touched), every message that was in
\* the mailbox of such a user when the pass began has its Email row.
C7_UnmatchedEmailStillRecorded ==
    /\ (run.kind = "email" /\ run.pc \in Terminal /\ run.why = "noinstr") =>
          (run.oracleCalls = 0 /\ run.executed = 0)
    /\ (poll.pc = "idle" /\ poll.passes > 0 /\ ~poll.lost /\ poll.updates = 0) =>
          \A id \in poll.startBox :
              LET u == Message(id).owner
              IN  (users[u].google /\ FindInstructions(u, "NEW_EMAIL") = {})
                      => EmailExists(emailTable, u, id)

\* C8: the step in which an oracle call fails ends the run and touches
\* nothing the run has done, and a run that has ended so can neither be
\* handed a response nor execute a call.
C8_OracleFailureAborts ==
    /\ [][(run'.pc = "errored" /\ run.pc # "errored") =>
             /\ AwaitingOracle
             /\ run'.executed = run.executed
             /\ effects' = effects
             /\ crm' = crm
             /\ contactTable' = contactTable
             /\ notifications' = notifications]_vars
    /\ [](run.pc = "errored" =>
             /\ ~ENABLED (\E outcome \in AdapterOutcomes : ExecuteCall(outcome))
             /\ ~ENABLED OracleProposes(<<PlainCall>>))

\* An oracle call has failed after the run had created a contact: the
\* contact and the notification of it are still there.
C8_Witness ==
    /\ run.pc = "errored"
    /\ run.executed > 0
    /\ crm # {}
    /\ contactTable # {}
    /\ Len(notifications) > 0

\* C9: a run that an oracle failure has ended has told the user so: by the
\* reply of the request, or by a notification of the failure.
C9_OracleFailureReachesUser ==
    run.pc = "errored" =>
        \/ reply # Null
        \/ \E k \in 1..Len(notifications) :
              notifications[k].type = "ERROR" /\ notifications[k].tool \notin ToolNames

\* C10: a tool call that fails does not end the run: its error result, under
\* its id, is among the round's results and, with them, in the history of
\* the next oracle call; and while rounds are left, the call the oracle
\* proposes then is executed.
C10_ToolFailureFedBack ==
    /\ [][\A outcome \in AdapterOutcomes :
             (ExecuteCall(outcome) /\ KeepsHistory(run.kind)) =>
                LET c == run.completion.calls[run.idx]
                    threw == \/ c.shape = "badjson"
                             \/ executeTool(run.user, MenuCall(c), outcome).threw
                    msg == [role |-> "tool", round |-> run.round, id |-> c.id,
                            name |-> c.tool, err |-> TRUE]
                IN  /\ threw =>
                          /\ run'.pc \in {"exec", "oracleN"}
                          /\ run'.pc = "exec" =>
                                \E k \in 1..Len(run'.toolResults) : run'.toolResults[k] = msg
                          /\ run'.pc = "oracleN" =>
                                \E k \in 1..Len(run'.history) : run'.history[k] = msg
                    /\ run'.pc = "oracleN" =>
                          \A k \in 1..Len(run.toolResults) :
                              \E j \in 1..Len(run'.history) :
                                  run'.history[j] = run.toolResults[k]]_vars
    /\ []((/\ run.pc = "oracleN"
           /\ run.round + 1 < (CASE run.kind = "executor" -> 10 [] OTHER -> 5))
             => ENABLED OracleProposes(<<PlainCall>>))
    /\ [](run.pc = "exec" => ENABLED (\E outcome \in AdapterOutcomes : ExecuteCall(outcome)))

\* add_contact_note failed in one round (the storage id where the CRM id
\* belongs); in the next round the oracle's corrected call went through.
C10_Witness ==
    /\ run.pc = "oracleN"
    /\ \E i, j \in 1..Len(run.history) :
          /\ run.history[i].role = "tool" /\ run.history[i].err
          /\ run.history[i].name = "add_contact_note"
          /\ run.history[j].role = "tool" /\ ~run.history[j].err
          /\ run.history[j].name = "add_contact_note"
          /\ run.history[j].round = run.history[i].round + 1

\* C11: every executed send_email / create_contact / add_contact_note call,
\* whether it succeeds or fails, adds exactly one row to the Notification
\* table, and the row is the acting user's.
C11_OneNotificationPerSideEffect ==
    [][\A outcome \in AdapterOutcomes :
          (ExecuteCall(outcome) /\ run.completion.calls[run.idx].tool \in MutatingTools) =>
              /\ Len(notifications') = Len(notifications) + 1
              /\ notifications'[Len(notifications')].userId = run.user]_vars

\* C12: a read-only tool call, whether it succeeds or fails, leaves the
\* Notification table as it was.
C12_ReadOnlyNeverNotifies ==
    [][\A outcome \in AdapterOutcomes :
          (ExecuteCall(outcome) /\ run.completion.calls[run.idx].tool \in ReadOnlyTools) =>
              notifications' = notifications]_vars

\* C13: in a run started by an email, a calendar event or a contact, an
\* adapter that throws does not end the run with an error, and its error is
\* either in a tool-result message under the call's id or in a new
\* Notification row.
C13_AdapterErrorsContained ==
    [][\A outcome \in AdapterOutcomes :
          (/\ ExecuteCall(outcome)
           /\ run.kind \in {"email", "calendar", "contact"}
           /\ run.completion.calls[run.idx].shape # "badjson"
           /\ LET res == executeTool(run.user, MenuCall(run.completion.calls[run.idx]), outcome)
              IN  res.adapter # Null /\ res.threw) =>
              /\ run'.pc # "errored"
              /\ \/ Len(notifications') > Len(notifications)
                 \/ \E k \in 1..Len(run'.toolResults) :
                        /\ run'.toolResults[k].id = run.completion.calls[run.idx].id
                        /\ run'.toolResults[k].err
                 \/ \E k \in 1..Len(run'.history) :
                        /\ run'.history[k].id = run.completion.calls[run.idx].id
                        /\ run'.history[k].err]_vars

\* C14: at most one pollAllUsers cycle is in flight, and the flag is up
\* exactly while it is; a pollAllUsers call made while a cycle is running,
\* by the timer or by start(), begins no pass and leaves the running one as
\* it is.
C14_OneCycleInFlight ==
    /\ [](poll.inflight <= 1)
    /\ [](poll.isPollRunning <=> poll.inflight = 1)
    /\ [][(poll.isPollRunning /\ (PollerTick \/ PollerStart)) =>
             /\ poll'.passes = poll.passes
             /\ poll'.inflight = poll.inflight
             /\ poll'.skips = poll.skips + 1
             /\ poll'.pc = poll.pc
             /\ poll'.selected = poll.selected
             /\ poll'.ui = poll.ui
             /\ poll'.newEmails = poll.newEmails
             /\ poll'.ei = poll.ei]_vars

\* The only cycle so far is still running, and a pollAllUsers call that
\* came in the meantime has been skipped.
C14_Witness ==
    /\ poll.isPollRunning
    /\ poll.passes = 1
    /\ poll.skips = 1
    /\ poll.inflight = 1

\* C15: a pass that is not cut short by a stop of the process ends only
\* when every user it selected has been handled: pollUserEmails for each
\* and, in the poller, pollUserCalendarEvents for each, whatever failed for
\* the users before.
C15_FailureOfOneUserIsolated ==
    [][(poll.pc # "idle" /\ poll'.pc = "idle" /\ poll'.crashes = poll.crashes) =>
          /\ poll.ui > Len(poll.selected)
          /\ \A k \in 1..Len(poll.selected) :
                /\ <<poll.selected[k].user, "emails">> \in poll.polled
                /\ poll.kind = "poller" =>
                       <<poll.selected[k].user, "calendar">> \in poll.polled]_vars

\* The loop over the users is through: the handling of u1 raised an error
\* and u2, next in line, was polled all the same.
C15_Witness ==
    /\ poll.pc = "user"
    /\ poll.ui > Len(poll.selected)
    /\ "u1" \in poll.failed
    /\ <<"u2", "emails">> \in poll.polled

\* C16: after a stop of the process in the middle of a pass, every message
\* the pass had fetched and not yet stored is stored by now or is among
\* what the watermark query of its mailbox yields.
C16_FetchedUnstoredComesBack ==
    poll.pc = "idle" =>
        \A id \in poll.pending :
            LET u == Message(id).owner
            IN  \/ EmailExists(emailTable, u, id)
                \/ id \in AfterQuery(mailbox, u, SinceDate(emailTable, u))

\* C17: a message that was in the agent's hands, its run not completed,
\* when the process stopped is not passed over by a later pass as already
\* handled.
C17_UnfinishedRunDispatchedAgain ==
    \A id \in poll.unfinished : id \notin poll.recognised

\* C18: within a run the next oracle call is issued by the step that ends
\* the last tool call of the round, and the history it is given holds, for
\* every call of that round, a tool-result message under the call's id,
\* behind the assistant message of the round.
C18_ResultsBeforeNextOracleCall ==
    /\ [][(run.pc # "idle" /\ run'.oracleCalls > run.oracleCalls) =>
             /\ run.pc = "exec"
             /\ run.idx = Len(run.completion.calls)
             /\ run'.executed = run.executed + 1
             /\ run'.oracleCalls = run.oracleCalls + 1]_vars
    /\ [](run.pc = "oracleN" =>
             \A i \in 1..Len(run.completion.calls) :
                 \E a, j \in 1..Len(run.history) :
                     /\ a < j
                     /\ run.history[a].role = "assistant"
                     /\ run.history[a].round = run.round
                     /\ run.history[j].role = "tool"
                     /\ run.history[j].round = run.round
                     /\ run.history[j].id = run.completion.calls[i].id)

\* The third oracle call is due: the second round held two calls, and both
\* have been executed.
C18_Witness ==
    /\ run.pc = "oracleN"
    /\ run.kind = "email"
    /\ run.round = 1
    /\ run.oracleCalls = 3
    /\ Len(run.completion.calls) = 2
    /\ run.executed >= 3

\* C19: when a notification that was due is not written, the run goes on
\* as it would have: it does not end in error, the call counts as executed,
\* its result (an error only if the tool itself failed) is among the round's
\* results under the call's id, and the next call or oracle call is due.
C19_NotificationFailureSwallowed ==
    [][\A outcome \in AdapterOutcomes :
          LET c == run.completion.calls[run.idx]
              threw == \/ c.shape = "badjson"
                       \/ executeTool(run.user, MenuCall(c), outcome).threw
              due == NotifyAfterCall(notifications, run.kind, run.user, MenuCall(c), threw)
              msg == [role |-> "tool", round |-> run.round, id |-> c.id,
                      name |-> c.tool, err |-> threw]
          IN  (ExecuteCall(outcome) /\ due # notifications /\ notifications' = notifications) =>
                  /\ run'.executed = run.executed + 1
                  /\ IF run.idx < Len(run.completion.calls)
                     THEN /\ run'.pc = "exec"
                          /\ run'.idx = run.idx + 1
                          /\ run'.toolResults = Append(run.toolResults, msg)
                          /\ run'.history = run.history
                     ELSE /\ run'.pc = "oracleN"
                          /\ run'.oracleCalls = run.oracleCalls + 1
                          /\ run'.history = run.history \o Append(run.toolResults, msg)]_vars

\* create_contact went through, the notification of it could not be written,
\* and the run has gone on to its next oracle call with the call's result.
C19_Witness ==
    /\ run.pc = "oracleN"
    /\ run.kind \in {"email", "executor"}
    /\ contactTable # {}
    /\ notifications = <<>>
    /\ \E j \in 1..Len(run.history) :
          /\ run.history[j].role = "tool"
          /\ run.history[j].name = "create_contact"
          /\ ~run.history[j].err

\* C20: executing a send_email / create_contact / add_contact_note call that
\* has already gone through for the user, with the same arguments, does
\* nothing more at the remote service and leaves the tables as they are.
C20_RepeatedCallChangesNothing ==
    [][\A outcome \in AdapterOutcomes :
          LET c == run.completion.calls[run.idx]
          IN  (/\ ExecuteCall(outcome)
               /\ c.tool \in MutatingTools
               /\ \E k \in 1..Len(effects) :
                     /\ effects[k].user = run.user /\ effects[k].tool = c.tool
                     /\ effects[k].shape = c.shape /\ effects[k].email = c.email
                     /\ ~effects[k].threw) =>
                  /\ \A k \in 1..Len(effects') : k > Len(effects) => effects'[k].threw
                  /\ crm' = crm
                  /\ contactTable' = contactTable]_vars

\* C21: the status of a task only moves forward, from PENDING through
\* IN_PROGRESS or WAITING_FOR_RESPONSE to COMPLETED, FAILED or CANCELLED:
\* whatever the update_task_status tool and the process-tasks request do, a
\* task in a final status keeps it and no task goes back to an earlier one.
C21_StatusOnlyMovesForward ==
    [][\A t \in 1..Len(tasks) :
          LET rank(st) == CASE st = "PENDING" -> 0
                            [] st \in {"IN_PROGRESS", "WAITING_FOR_RESPONSE"} -> 1
                            [] OTHER -> 2
          IN  tasks'[t].status # tasks[t].status
                  => /\ rank(tasks[t].status) < 2
                     /\ rank(tasks'[t].status) >= rank(tasks[t].status)]_vars

\* C22: a standing instruction is only ever activated or deactivated: its
\* row is never removed from the table.
C22_InstructionNeverDeleted ==
    \A i \in InstrIds : instructions[i] # Gone

\* C23: the instructions a run starts with are exactly the rows of its user
\* that are active and of the trigger type of the event, as the table holds
\* them when the run starts: none deactivated before, none of another user,
\* none of another trigger type.
C23_RunUsesActiveInstructionsOfUserAndTrigger ==
    [][(run.pc = "idle" /\ run'.pc = "oracle0")
          => /\ {run'.instructions[k] : k \in 1..Len(run'.instructions)}
                  = {i \in InstrIds : /\ instructions[i].userId = run'.user
                                      /\ instructions[i].isActive
                                      /\ instructions[i].triggerType = TriggerOf(run'.kind)}
             /\ \A a, b \in 1..Len(run'.instructions) :
                   run'.instructions[a] = run'.instructions[b] => a = b]_vars

\* A run for an email of u1 has started after i2 was deactivated: it works
\* with i1 alone.
C23_Witness ==
    /\ run.pc = "oracle0"
    /\ run.kind = "email"
    /\ run.user = "u1"
    /\ run.instructions = <<"i1">>
    /\ instructions["i2"] = Instr("u1", "NEW_EMAIL", FALSE)
    /\ instructions["i4"] = Instr("u2", "NEW_EMAIL", TRUE)
    /\ instructions["i3"] = Instr("u1", "NEW_CALENDAR_EVENT", TRUE)

\* C24: the instructions a run works with are in the order of their
\* creation, the most recent first.
C24_InstructionsNewestFirst ==
    \A a, b \in 1..Len(run.instructions) :
        a < b => CreatedAt(run.instructions[a]) > CreatedAt(run.instructions[b])

\* C29: the Gmail webhook delivered again with the same emailId creates no
\* further task: no two tasks stem from the same email and instruction.
C29_WebhookRedeliveryCreatesNoTask ==
    \A a, b \in 1..Len(tasks) :
        (/\ tasks[a].emailId # Null
         /\ tasks[a].emailId = tasks[b].emailId
         /\ tasks[a].instr = tasks[b].instr) => a = b

\* C25: a run that ends because its rounds are used up while the oracle
\* still asks for tools is marked as exhausted, which tells it from a run
\* that ended by itself, and the chat shows the last text of the oracle or
\* a general notice.
C25_ExhaustedRunIsMarked ==
    [][(\E content \in BOOLEAN : OracleStops(TRUE, content))
          => /\ run'.why = "exhausted"
             /\ run.kind = "chat" => reply' \in {"content", "processing"}]_vars

\* C26: what a call of the email detector yields is in the order of the
\* messages' dates, the oldest first, and that is the order in which the
\* pass stores and dispatches them.
C26_EmailsOldestFirst ==
    \A a, b \in 1..Len(poll.newEmails) :
        a < b => Message(poll.newEmails[a]).date <= Message(poll.newEmails[b]).date

\* C27: a pass goes on to store and dispatch emails of a user only if no
\* call to the provider failed while they were fetched: what it works on
\* is then all that the query matches (the mailboxes hold fewer messages
\* than one page of the list), and after a failure it is nothing.
C27_ProviderFailureYieldsNothing ==
    [][(poll.pc = "user" /\ poll'.pc = "email")
          => LET u == poll.selected[poll.ui].user
             IN  {poll'.newEmails[k] : k \in 1..Len(poll'.newEmails)}
                     = AfterQuery(mailbox, u, SinceDate(emailTable, u))]_vars

\* C28: a detection that fails because the token has expired writes a
\* notification of a token-expired type.
C28_ExpiredTokenNotified ==
    [][PollTokenExpired
          => /\ Len(notifications') = Len(notifications) + 1
             /\ notifications'[Len(notifications')].type
                    \in {"GOOGLE_TOKEN_EXPIRED", "HUBSPOT_TOKEN_EXPIRED"}]_vars

\* C30: however the detectors of one user overlap, processNewCalendarEvent
\* is called at most once for a calendar event (a googleId).
C30_OneRunPerProviderId ==
    \A e \in EventIds : sync.dispatched[e] <= 1

\* C31: a run that executes create_calendar_event starts no run for the
\* event it has created: no run is ever in progress inside a tool call of
\* another, so the runs that one outside event causes cannot multiply.
C31_CreatedEventStartsNoRun ==
    Len(sync.runs) <= 1

\* C32: every message in the inbox of a user with a token and an active
\* NEW_EMAIL instruction, not sent by the user, is in the end handed to
\* processNewEmail.  A pass hands over only what it stores itself, so a
\* message that a pass finds stored and passes over must have been handed
\* over before.
C32_EveryEmailDispatched ==
    \A id \in poll.recognised :
        LET u == Message(id).owner IN
        (/\ users[u].google
         /\ FindInstructions(u, "NEW_EMAIL") # {}
         /\ ToLowerCase(extractEmail(Message(id).from)) # ToLowerCase(users[u].email))
            => poll.dispatched[id] >= 1

\* C33: in a run that no oracle failure aborts, every tool call the oracle
\* asks for is executed, once: no run ends on an answer of the oracle that
\* asks for tools.
C33_NoProposedCallDiscarded ==
    [][\A content \in BOOLEAN : ~OracleStops(TRUE, content)]_vars

\* C34: a NEW_CONTACT_CREATED notification is written only for a
\* create_contact call that created a contact: there are never more such
\* notifications than create_contact calls that HubSpot has answered well,
\* and a call that the own-address guard refused adds none.
C34_ContactNotificationOnlyForCreatedContact ==
    Cardinality({k \in 1..Len(notifications) : notifications[k].type = "NEW_CONTACT_CREATED"})
        <= Cardinality({k \in 1..Len(effects) :
                           effects[k].tool = "create_contact" /\ ~effects[k].threw})

\* C35: whenever no cycle of the timer is in progress, be it that the last
\* one ended normally or in the catch of pollAllUsers, the in-flight flag is
\* clear; and on an idle poller with its interval armed the next
\* pollAllUsers call begins a pass over the users instead of returning.
C35_FlagClearAfterCycle ==
    /\ poll.kind # "poller" => ~poll.isPollRunning
    /\ (poll.kind = Null /\ poll.timers > 0) =>
           LET p == pollAllUsers(poll)
           IN  /\ p.kind = "poller"
               /\ p.pc = "user"
               /\ p.passes = poll.passes + 1
               /\ p.skips = poll.skips

\* The users query of the last cycle threw; the cycle is over, the interval
\* is armed and the flag is down.
C35_Witness ==
    /\ poll.queryFailed
    /\ poll.kind = Null
    /\ poll.timers > 0
    /\ ~poll.isPollRunning

\* C36: at most one interval is armed, and one is armed exactly while the
\* poller is started; on a stopped poller no step begins a cycle of the
\* timer: a pass that begins there is start()'s own or the endpoint's.
C36_OneTimerAndNoCycleAfterStop ==
    /\ [](poll.timers <= 1)
    /\ [](poll.timers = 1 <=> poll.isPolling)
    /\ [][(~poll.isPolling /\ poll'.passes > poll.passes) =>
             (poll'.isPolling \/ poll'.kind = "manual")]_vars

\* stop() came while a cycle of the timer was running: the cycle goes on
\* and no interval is armed.
C36_Witness ==
    /\ ~poll.isPolling
    /\ poll.isPollRunning
    /\ poll.timers = 0
    /\ poll.crashes = 0

\* C37: no task is handed to processTask by two process-tasks requests:
\* what one request has passed to processTask, or is about to, no other
\* request in progress has.
C37_TaskProcessedByOneRequest ==
    LET Taken(w) == {sweep[w].tasks[k] : k \in 1..(sweep[w].ti - 1)}
                        \cup (IF sweep[w].pc = "process"
                              THEN {sweep[w].tasks[sweep[w].ti]} ELSE {})
    IN  \A w, v \in Requests : w # v => Taken(w) \cap Taken(v) = {}

\* C38: when a process-tasks request returns, every task it marked
\* IN_PROGRESS is COMPLETED or FAILED.
C38_NoTaskLeftInProgress ==
    [][\A w \in Requests :
          SweepDone(w) => \A k \in 1..Len(sweep[w].tasks) :
                             tasks[sweep[w].tasks[k]].status \in {"COMPLETED", "FAILED"}]_vars

\* C39: the update_task_status tool, working for user u, changes the
\* status of tasks of u only.
C39_ToolWritesOwnTasksOnly ==
    [][\A u \in Users, t \in 1..MaxTasks, status \in TaskStatus :
          UpdateTaskStatus(u, t, status) =>
              \A k \in 1..Len(tasks) :
                  tasks'[k].status # tasks[k].status => tasks[k].userId = u]_vars

==============================================================================
